---- MODULE Spec2Model ----
(***************************************************************************)
(* Model of feedback_app.py: a Streamlit script that reads an uploaded     *)
(* feedback table, lets the user tick the question columns in a form and,  *)
(* on submit, reshapes, categorises and aggregates the responses into the  *)
(* rows of a diverging stacked-bar chart.                                  *)
(*                                                                         *)
(* Text is modelled as a sequence of Unicode code points, so that slicing  *)
(* (col_name[:60]), len(), substring tests and Python's code-point string  *)
(* ordering are computed, not assumed.  NaN (pandas' missing value) is the *)
(* empty sequence: no header, cell or label of the program is the empty    *)
(* string (the readers turn blank cells into NaN).                         *)
(*                                                                         *)
(* Library calls (pandas, Streamlit) are modelled by their documented      *)
(* contract.  Column names are assumed to be strings that differ from the  *)
(* names the script itself adds to the long table (Criterion, Response,    *)
(* Response Category, Sentiment).                                          *)
(***************************************************************************)
EXTENDS Integers, Sequences, FiniteSets, TLC

VARIABLES
    uploaded_file,        \* the file held by the st.file_uploader widget
    widget,               \* browser-side state of the rendered checkboxes
    clicked,              \* the form's submit button triggered this run
    pc,                   \* position of the script run ("idle": no run)
    df,                   \* script local: the loaded table
    all_columns,          \* script local
    checkbox_states,      \* script local: col -> checked
    submitted,            \* script local
    feedback_cols,        \* script local
    total_responses,      \* script local
    df_long,              \* script local
    df_perc,              \* script local
    criterion_short_map,  \* script local
    sorted_criteria,      \* script local
    page,                 \* what this run has put on the page, in order
    chart,                \* the chart this run has drawn (at most one)
    archive               \* history: per (table, selection), the first chart
                          \* drawn for it, whether another request was drawn
                          \* since, and whether it was drawn again after that

vars == <<uploaded_file, widget, clicked, pc, df, all_columns, checkbox_states,
          submitted, feedback_cols, total_responses, df_long, df_perc,
          criterion_short_map, sorted_criteria, page, chart, archive>>

locals == <<df, all_columns, checkbox_states, submitted, feedback_cols,
            total_responses, df_long, df_perc, criterion_short_map,
            sorted_criteria>>

-----------------------------------------------------------------------------
(* Bounds of the model                                                     *)

\* rows of the tables whose cells are enumerated exhaustively
MaxRows == 3
\* columns of the wide tables used for the label numbering
WideCols == 10

-----------------------------------------------------------------------------
(* Text helpers: Python str operations on code-point sequences             *)

NaN == <<>>

Rep(c, n) == [i \in 1..n |-> c]

\* s[:n]
Prefix(s, n) == SubSeq(s, 1, IF Len(s) < n THEN Len(s) ELSE n)

\* sub in s
IsSubstring(sub, s) ==
    \E k \in 0..(Len(s) - Len(sub)) : SubSeq(s, k + 1, k + Len(sub)) = sub

\* str(n) for n >= 0
RECURSIVE PyStr(_)
PyStr(n) == IF n < 10 THEN <<48 + n>> ELSE PyStr(n \div 10) \o <<48 + (n % 10)>>

\* a < b for Python strings: lexicographic on code points, a proper prefix first
RECURSIVE StrLess(_, _)
StrLess(a, b) ==
    IF b = <<>> THEN FALSE
    ELSE IF a = <<>> THEN TRUE
    ELSE IF Head(a) # Head(b) THEN Head(a) < Head(b)
    ELSE StrLess(Tail(a), Tail(b))

\* tuples of strings compare lexicographically, element by element
RECURSIVE TupleLess(_, _)
TupleLess(a, b) ==
    IF b = <<>> THEN FALSE
    ELSE IF a = <<>> THEN TRUE
    ELSE IF Head(a) # Head(b) THEN StrLess(Head(a), Head(b))
    ELSE TupleLess(Tail(a), Tail(b))

\* insert x into the ascending sequence s, after the elements not above it
RECURSIVE InsertSorted(_, _)
InsertSorted(x, s) ==
    IF s = <<>> THEN <<x>>
    ELSE IF StrLess(x, Head(s)) THEN <<x>> \o s
    ELSE <<Head(s)>> \o InsertSorted(x, Tail(s))

\* faulty variant: the labels stay in selection order
Sorted_AsGiven(s) == s

\* sorted(seq): ascending, stable
RECURSIVE Sorted(_)
Sorted(s) == IF s = <<>> THEN <<>>
             ELSE InsertSorted(s[Len(s)], Sorted(SubSeq(s, 1, Len(s) - 1)))

Range(s) == {s[i] : i \in DOMAIN s}

\* the elements of s at the positions in keep, in order
SelectIdx(s, keep) ==
    LET F[i \in 0..Len(s)] ==
            IF i = 0 THEN <<>>
            ELSE IF i \in keep THEN Append(F[i - 1], s[i]) ELSE F[i - 1]
    IN F[Len(s)]

-----------------------------------------------------------------------------
(* Program constants                                                       *)

\* 'Strongly Agree ' followed by U+2705
RespStronglyAgree ==
    <<83, 116, 114, 111, 110, 103, 108, 121, 32, 65, 103, 114, 101, 101, 32, 9989>>
\* 'Agree ' followed by U+270B U+1F3FB
RespAgree == <<65, 103, 114, 101, 101, 32, 9995, 127995>>
\* 'Disagree ' followed by U+26A0 U+FE0F
RespDisagree == <<68, 105, 115, 97, 103, 114, 101, 101, 32, 9888, 65039>>
\* 'Strongly Disagree ' followed by U+26D4 U+FE0F
RespStronglyDisagree ==
    <<83, 116, 114, 111, 110, 103, 108, 121, 32, 68, 105, 115, 97, 103, 114, 101,
      101, 32, 9940, 65039>>

\* 'Strongly Agree', 'Agree', 'Disagree', 'Strongly Disagree'
StronglyAgree == <<83, 116, 114, 111, 110, 103, 108, 121, 32, 65, 103, 114, 101, 101>>
Agree == <<65, 103, 114, 101, 101>>
Disagree == <<68, 105, 115, 97, 103, 114, 101, 101>>
StronglyDisagree ==
    <<83, 116, 114, 111, 110, 103, 108, 121, 32, 68, 105, 115, 97, 103, 114, 101, 101>>

\* 'Positive', 'Negative'
Positive == <<80, 111, 115, 105, 116, 105, 118, 101>>
Negative == <<78, 101, 103, 97, 116, 105, 118, 101>>

response_to_category ==
    (RespStronglyAgree :> StronglyAgree) @@ (RespAgree :> Agree) @@
    (RespDisagree :> Disagree) @@ (RespStronglyDisagree :> StronglyDisagree)

response_to_sentiment ==
    (RespStronglyAgree :> Positive) @@ (RespAgree :> Positive) @@
    (RespDisagree :> Negative) @@ (RespStronglyDisagree :> Negative)

color_domain == <<StronglyAgree, Agree, Disagree, StronglyDisagree>>
color_range == <<"#006837", "#31a354", "#fb6a4a", "#a50f15">>

\* 'Teacher-Specific Reflection'
TeacherSpecificReflection ==
    <<84, 101, 97, 99, 104, 101, 114, 45, 83, 112, 101, 99, 105, 102, 105, 99, 32,
      82, 101, 102, 108, 101, 99, 116, 105, 111, 110>>
\* the pointing-hand character U+1F449
PointRight == <<128073>>

\* the slice width and the length test of the short names
ShortWidth == 60
\* '...'
Ellipsis == <<46, 46, 46>>
\* '. '
DotSpace == <<46, 32>>

-----------------------------------------------------------------------------
(* The pandas steps of the analysis, as operators on sequences of records  *)

\* len(df)
FrameLen(frame) == Len(frame.data)

\* position of a column in the frame (column names are unique)
ColIndex(frame, col) == CHOOSE i \in 1..Len(frame.columns) : frame.columns[i] = col

\* [col for col in df.columns if col not in feedback_cols]
IdVars(frame, value_vars) ==
    SelectIdx(frame.columns,
              {i \in 1..Len(frame.columns) : frame.columns[i] \notin Range(value_vars)})

\* df.melt(id_vars, value_vars, var_name='Criterion', value_name='Response'):
\* one row per (value column, table row), value columns outermost
Melt(frame, id_vars, value_vars) ==
    LET n == FrameLen(frame)
    IN [k \in 1..(n * Len(value_vars)) |->
          LET col == value_vars[((k - 1) \div n) + 1]
              row == frame.data[((k - 1) % n) + 1]
          IN [ids       |-> [j \in 1..Len(id_vars) |-> row[ColIndex(frame, id_vars[j])]],
              Criterion |-> col,
              Response  |-> row[ColIndex(frame, col)]]]

\* Series.map(dict): a value that is no key of the dict becomes NaN
MapDict(dict, key) == IF key \in DOMAIN dict THEN dict[key] ELSE NaN

\* faulty variant: an unmapped response is filled with a default category
Categorize_FillDefault(long) ==
    [k \in 1..Len(long) |->
        [ids               |-> long[k].ids,
         Criterion         |-> long[k].Criterion,
         Response          |-> long[k].Response,
         Response_Category |->
             IF long[k].Response \in DOMAIN response_to_category
             THEN response_to_category[long[k].Response] ELSE Disagree,
         Sentiment         |->
             IF long[k].Response \in DOMAIN response_to_sentiment
             THEN response_to_sentiment[long[k].Response] ELSE Negative]]

\* the two column assignments of the mapping step
Categorize(long) ==
    [k \in 1..Len(long) |->
        [ids               |-> long[k].ids,
         Criterion         |-> long[k].Criterion,
         Response          |-> long[k].Response,
         Response_Category |-> MapDict(response_to_category, long[k].Response),
         Sentiment         |-> MapDict(response_to_sentiment, long[k].Response)]]

\* faulty variant: the unmapped rows are kept
DropNa_Keep(long) == long

\* dropna(subset=['Response Category', 'Sentiment']): a row goes if either is NaN
DropNa(long) ==
    SelectIdx(long, {k \in 1..Len(long) :
                        long[k].Response_Category # NaN /\ long[k].Sentiment # NaN})

\* the group keys in groupby's order (sort=True): ascending tuples
RECURSIVE SortedKeys(_)
SortedKeys(S) ==
    IF S = {} THEN <<>>
    ELSE LET m == CHOOSE x \in S : \A y \in S : y = x \/ TupleLess(x, y)
         IN <<m>> \o SortedKeys(S \ {m})

\* groupby(['Criterion', 'Response Category', 'Sentiment']).size()
\*     .reset_index(name='Count'); groupby leaves out a key that holds NaN
CountGroups(long) ==
    LET keyOf(r) == <<r.Criterion, r.Response_Category, r.Sentiment>>
        keys == SortedKeys({keyOf(long[k]) : k \in {j \in 1..Len(long) :
                                   \A i \in 1..3 : keyOf(long[j])[i] # NaN}})
    IN [g \in 1..Len(keys) |->
          [Criterion         |-> keys[g][1],
           Response_Category |-> keys[g][2],
           Sentiment         |-> keys[g][3],
           Count |-> Cardinality({k \in 1..Len(long) : keyOf(long[k]) = keys[g]})]]

\* faulty variant: the Total taken as the table's row count
TotalGroups_RowCount(long) ==
    LET keys == SortedKeys({<<long[k].Criterion>> : k \in 1..Len(long)})
    IN [g \in 1..Len(keys) |-> [Criterion |-> keys[g][1], Total |-> total_responses]]

\* groupby('Criterion').size().reset_index(name='Total')
TotalGroups(long) ==
    LET keys == SortedKeys({<<long[k].Criterion>> : k \in 1..Len(long)})
    IN [g \in 1..Len(keys) |->
          [Criterion |-> keys[g][1],
           Total |-> Cardinality({k \in 1..Len(long) : long[k].Criterion = keys[g][1]})]]

\* flatten a sequence of sequences
RECURSIVE Flatten(_)
Flatten(ss) == IF ss = <<>> THEN <<>> ELSE Head(ss) \o Flatten(Tail(ss))

\* pd.merge(counts, totals, on='Criterion'): inner join, left order kept
Merge(counts, totals) ==
    Flatten([i \in 1..Len(counts) |->
        LET hits == SelectIdx(totals, {j \in 1..Len(totals) :
                                          totals[j].Criterion = counts[i].Criterion})
        IN [h \in 1..Len(hits) |->
              [Criterion         |-> counts[i].Criterion,
               Response_Category |-> counts[i].Response_Category,
               Sentiment         |-> counts[i].Sentiment,
               Count             |-> counts[i].Count,
               Total             |-> hits[h].Total]]])

\* Count / Total, kept as the exact fraction
TrueDiv(a, b) == [num |-> a, den |-> b]

\* faulty variant: the sign of the Negative rows is not flipped
Diverging_Unsigned(row) == row.Percentage

\* row['Percentage'] * -1 if row['Sentiment'] == 'Negative' else row['Percentage']
Diverging(row) ==
    IF row.Sentiment = Negative
    THEN [num |-> row.Percentage.num * (-1), den |-> row.Percentage.den]
    ELSE row.Percentage

\* the Percentage and Diverging Percentage columns; the row-wise apply gives one
\* value per row, so no value (an empty column) for a frame without rows
Percentages(merged) ==
    [k \in 1..Len(merged) |->
        LET withPerc == [Criterion         |-> merged[k].Criterion,
                         Response_Category |-> merged[k].Response_Category,
                         Sentiment         |-> merged[k].Sentiment,
                         Count             |-> merged[k].Count,
                         Total             |-> merged[k].Total,
                         Percentage        |-> TrueDiv(merged[k].Count, merged[k].Total)]
        IN [Criterion           |-> withPerc.Criterion,
            Response_Category   |-> withPerc.Response_Category,
            Sentiment           |-> withPerc.Sentiment,
            Count               |-> withPerc.Count,
            Total               |-> withPerc.Total,
            Percentage          |-> withPerc.Percentage,
            Diverging_Percentage |-> Diverging(withPerc)]]

\* faulty variant: a name of exactly 60 characters is cut and marked as well
ShortName_CutFrom60(i, col_name) ==
    IF Len(col_name) >= ShortWidth
    THEN PyStr(i + 1) \o DotSpace \o Prefix(col_name, ShortWidth) \o Ellipsis
    ELSE PyStr(i + 1) \o DotSpace \o col_name

\* faulty variant: the short name carries no index
ShortName_NoIndex(i, col_name) ==
    IF Len(col_name) > ShortWidth
    THEN Prefix(col_name, ShortWidth) \o Ellipsis
    ELSE col_name

\* f"{i+1}. {col_name[:60]}..." if len(col_name) > 60 else f"{i+1}. {col_name}"
ShortName(i, col_name) ==
    IF Len(col_name) > ShortWidth
    THEN PyStr(i + 1) \o DotSpace \o Prefix(col_name, ShortWidth) \o Ellipsis
    ELSE PyStr(i + 1) \o DotSpace \o col_name

\* the dict comprehension over enumerate(feedback_cols); i is 0-based and a
\* repeated key keeps its last value
ShortMap(cols) ==
    [c \in Range(cols) |->
        LET last == CHOOSE i \in 1..Len(cols) :
                        cols[i] = c /\ \A j \in 1..Len(cols) : cols[j] = c => j <= i
        IN ShortName(last - 1, c)]

\* list(dict.values()): one value per key, in first-insertion order
DictValues(cols, dict) ==
    LET firsts == {i \in 1..Len(cols) : \A j \in 1..(i - 1) : cols[j] # cols[i]}
    IN [k \in 1..Len(SelectIdx(cols, firsts)) |-> dict[SelectIdx(cols, firsts)[k]]]

\* df_perc['Criterion'] = df_perc['Criterion'].map(criterion_short_map)
Relabel(perc, dict) ==
    [k \in 1..Len(perc) |-> [perc[k] EXCEPT !.Criterion = MapDict(dict, @)]]

\* 'Teacher-Specific Reflection' in col or the pointing hand in col
PreCheck(col) == IsSubstring(TeacherSpecificReflection, col) \/ IsSubstring(PointRight, col)

\* uploaded_file.name.endswith(suffix)
EndsWith(s, suffix) ==
    Len(s) >= Len(suffix) /\ SubSeq(s, Len(s) - Len(suffix) + 1, Len(s)) = suffix

\* '.csv'
DotCsv == <<46, 99, 115, 118>>

\* the try block: read_csv for a name ending in '.csv', read_excel otherwise;
\* the reader raises when the bytes are not of its format
ReadRaises(file) ==
    IF EndsWith(file.name, DotCsv) THEN file.format # "csv" ELSE file.format # "excel"

\* [col for col, checked in checkbox_states.items() if checked], in dict order
CheckedCols(columns, states) ==
    SelectIdx(columns, {i \in 1..Len(columns) : states[columns[i]]})

-----------------------------------------------------------------------------
(* Inputs: column names, tables and files                                  *)

EmptyFrame == [columns |-> <<>>, data |-> <<>>]
NoFile == [name |-> <<>>, format |-> "none", table |-> EmptyFrame]

\* 'N/A', and 'Strongly Agree' without its symbol
NotApplicable == <<78, 47, 65>>
CellValues == {RespStronglyAgree, RespAgree, RespDisagree, RespStronglyDisagree,
               StronglyAgree, NotApplicable, NaN}
PairCellValues == {RespStronglyAgree, RespDisagree, NotApplicable}

\* 70 x 'X';  60 x 'Y';  60 x 'Z' + 'a';  60 x 'Z' + 'b'
Name70 == Rep(88, 70)
Name60 == Rep(89, 60)
Name61a == Rep(90, 60) \o <<97>>
Name61b == Rep(90, 60) \o <<98>>
\* the pointing hand + 'Q';  'Teacher-Specific Reflection: Q'
NameHand == PointRight \o <<81>>
NameTSR == TeacherSpecificReflection \o <<58, 32, 81>>
\* 'Q7', 'Q8', ...
NameQ(k) == <<81>> \o PyStr(k)

WideName(k) ==
    CASE k = 1 -> Name70
      [] k = 2 -> Name61a
      [] k = 3 -> Name61b
      [] k = 4 -> Name60
      [] k = 5 -> NameHand
      [] k = 6 -> NameTSR
      [] OTHER -> NameQ(k)

WideCell(k) ==
    CASE k % 7 = 1 -> RespStronglyAgree
      [] k % 7 = 2 -> RespDisagree
      [] k % 7 = 3 -> RespAgree
      [] k % 7 = 4 -> NaN
      [] k % 7 = 5 -> NotApplicable
      [] k % 7 = 6 -> RespStronglyDisagree
      [] OTHER -> StronglyAgree

Reverse(s) == [i \in 1..Len(s) |-> s[Len(s) + 1 - i]]

WideHeaders == LET h == [k \in 1..WideCols |-> WideName(k)] IN {h, Reverse(h)}
WideTables ==
    {[columns |-> h, data |-> d] :
        h \in WideHeaders, d \in {<<>>, <<[k \in 1..WideCols |-> WideCell(k)]>>}}

SeqsUpTo(S, n) == UNION {[1..k -> S] : k \in 0..n}

OneColTables ==
    {[columns |-> <<NameHand>>, data |-> d] :
        d \in SeqsUpTo({<<c>> : c \in CellValues}, MaxRows)}
TwoColTables ==
    {[columns |-> <<Name61a, Name61b>>, data |-> d] :
        d \in SeqsUpTo(PairCellValues \X PairCellValues, MaxRows)}

\* 'f.csv', 'f.xlsx', 'f.xls', 'F.CSV'
FileCsv == <<102>> \o DotCsv
FileXlsx == <<102, 46, 120, 108, 115, 120>>
FileXls == <<102, 46, 120, 108, 115>>
FileCsvUpper == <<70, 46, 67, 83, 86>>

CsvFile(t) == [name |-> FileCsv, format |-> "csv", table |-> t]
XlsxFile(t) == [name |-> FileXlsx, format |-> "excel", table |-> t]

\* files no reader accepts: undecodable bytes, or a format the name belies
BadFiles ==
    {[name |-> FileCsv, format |-> "garbage", table |-> EmptyFrame],
     [name |-> FileXls, format |-> "garbage", table |-> EmptyFrame],
     [name |-> FileXlsx, format |-> "csv", table |-> EmptyFrame],
     [name |-> FileCsvUpper, format |-> "csv", table |-> EmptyFrame]}

\* the files of the single-run specification
RunFiles ==
    {CsvFile(t) : t \in OneColTables \cup TwoColTables}
        \cup {XlsxFile(t) : t \in WideTables} \cup BadFiles

\* the files a user uploads in the session specification
SessionTables ==
    {[columns |-> <<NameHand>>,
      data |-> <<<<RespStronglyAgree>>, <<RespDisagree>>, <<RespStronglyAgree>>>>],
     [columns |-> <<Name61a, Name61b>>,
      data |-> <<<<RespAgree, NotApplicable>>, <<RespStronglyDisagree, NaN>>>>]}
SessionFiles ==
    {CsvFile(t) : t \in SessionTables}
        \cup {[name |-> FileCsv, format |-> "garbage", table |-> EmptyFrame],
              [name |-> FileXlsx, format |-> "csv", table |-> EmptyFrame]}

-----------------------------------------------------------------------------
(* The script: one run from top to bottom, by position                     *)

\* the chart handed to st.altair_chart: data, title count, y sort, colours
ChartOf(perc, n, order) ==
    [data |-> perc, title_N |-> n, sort |-> order,
     domain |-> color_domain, range |-> color_range]

\* the selection a chart belongs to: the loaded table and the ticked columns
RequestKey == <<df, {c \in DOMAIN checkbox_states : checkbox_states[c]}>>

ClearLocals ==
    /\ df' = EmptyFrame
    /\ all_columns' = <<>>
    /\ checkbox_states' = <<>>
    /\ submitted' = FALSE
    /\ feedback_cols' = <<>>
    /\ total_responses' = 0
    /\ df_long' = <<>>
    /\ df_perc' = <<>>
    /\ criterion_short_map' = <<>>
    /\ sorted_criteria' = <<>>

\* lines 14-32 with no file in the uploader: the script ends after the uploader
RunTopNoFile ==
    /\ pc = "start"
    /\ uploaded_file = NoFile
    /\ ClearLocals
    /\ page' = <<"title", "uploader">>
    /\ chart' = <<>>
    /\ widget' = <<>>
    /\ pc' = "idle"
    /\ UNCHANGED <<uploaded_file, clicked, archive>>

\* lines 14-32 with a file: the body of 'if uploaded_file is not None' follows
RunTopWithFile ==
    /\ pc = "start"
    /\ uploaded_file # NoFile
    /\ ClearLocals
    /\ page' = <<"title", "uploader">>
    /\ chart' = <<>>
    /\ pc' = "read"
    /\ UNCHANGED <<uploaded_file, widget, clicked, archive>>

\* lines 36-46, the reader returns
ReadOk ==
    /\ pc = "read"
    /\ ~ReadRaises(uploaded_file)
    /\ df' = uploaded_file.table
    /\ all_columns' = uploaded_file.table.columns
    /\ pc' = "form"
    /\ UNCHANGED <<uploaded_file, widget, clicked, checkbox_states, submitted,
                   feedback_cols, total_responses, df_long, df_perc,
                   criterion_short_map, sorted_criteria, page, chart, archive>>

\* faulty variant: the error is shown but the run goes on to the form
ReadFail_NoStop ==
    /\ pc = "read"
    /\ ReadRaises(uploaded_file)
    /\ page' = Append(page, "error_read")
    /\ pc' = "form"
    /\ UNCHANGED <<uploaded_file, widget, clicked, locals, chart, archive>>

\* lines 41-43, the reader raises: st.error, st.stop
ReadFail ==
    /\ pc = "read"
    /\ ReadRaises(uploaded_file)
    /\ page' = Append(page, "error_read")
    /\ widget' = <<>>
    /\ pc' = "idle"
    /\ UNCHANGED <<uploaded_file, clicked, locals, chart, archive>>

\* lines 55-71: a checkbox per column, pre-checked by name unless the browser
\* already holds its state; the button reports whether it triggered this run
BuildForm ==
    /\ pc = "form"
    /\ checkbox_states' =
          [col \in Range(all_columns) |->
              IF col \in DOMAIN widget THEN widget[col] ELSE PreCheck(col)]
    /\ widget' = checkbox_states'
    /\ submitted' = clicked
    /\ page' = Append(page, "form")
    /\ pc' = "submitted"
    /\ UNCHANGED <<uploaded_file, clicked, df, all_columns, feedback_cols,
                   total_responses, df_long, df_perc, criterion_short_map,
                   sorted_criteria, chart, archive>>

\* line 76, not submitted: the script ends
NotSubmitted ==
    /\ pc = "submitted"
    /\ ~submitted
    /\ pc' = "idle"
    /\ UNCHANGED <<uploaded_file, widget, clicked, locals, page, chart, archive>>

\* lines 76-82, submitted with a column ticked
SelectColumns ==
    /\ pc = "submitted"
    /\ submitted
    /\ CheckedCols(all_columns, checkbox_states) # <<>>
    /\ feedback_cols' = CheckedCols(all_columns, checkbox_states)
    /\ page' = Append(page, "spinner")
    /\ pc' = "melt"
    /\ UNCHANGED <<uploaded_file, widget, clicked, df, all_columns, checkbox_states,
                   submitted, total_responses, df_long, df_perc,
                   criterion_short_map, sorted_criteria, chart, archive>>

\* faulty variant: the error is shown but the run goes on
SelectNone_NoStop ==
    /\ pc = "submitted"
    /\ submitted
    /\ CheckedCols(all_columns, checkbox_states) = <<>>
    /\ feedback_cols' = <<>>
    /\ page' = Append(page, "error_select")
    /\ pc' = "melt"
    /\ UNCHANGED <<uploaded_file, widget, clicked, df, all_columns, checkbox_states,
                   submitted, total_responses, df_long, df_perc,
                   criterion_short_map, sorted_criteria, chart, archive>>

\* lines 76-84, submitted with nothing ticked: st.error, st.stop
SelectNone ==
    /\ pc = "submitted"
    /\ submitted
    /\ CheckedCols(all_columns, checkbox_states) = <<>>
    /\ feedback_cols' = <<>>
    /\ page' = Append(page, "error_select")
    /\ pc' = "idle"
    /\ UNCHANGED <<uploaded_file, widget, clicked, df, all_columns, checkbox_states,
                   submitted, total_responses, df_long, df_perc,
                   criterion_short_map, sorted_criteria, chart, archive>>

\* faulty variant: the response count is kept across the runs of the session
MeltStep_CountsSession ==
    /\ pc = "melt"
    /\ total_responses' = FrameLen(df) + Cardinality(DOMAIN archive)
    /\ df_long' = Melt(df, IdVars(df, feedback_cols), feedback_cols)
    /\ pc' = "map"
    /\ UNCHANGED <<uploaded_file, widget, clicked, df, all_columns, checkbox_states,
                   submitted, feedback_cols, df_perc, criterion_short_map,
                   sorted_criteria, page, chart, archive>>

\* lines 90-98
MeltStep ==
    /\ pc = "melt"
    /\ total_responses' = FrameLen(df)
    /\ df_long' = Melt(df, IdVars(df, feedback_cols), feedback_cols)
    /\ pc' = "map"
    /\ UNCHANGED <<uploaded_file, widget, clicked, df, all_columns, checkbox_states,
                   submitted, feedback_cols, df_perc, criterion_short_map,
                   sorted_criteria, page, chart, archive>>

\* lines 102-120
MapStep ==
    /\ pc = "map"
    /\ df_long' = DropNa(Categorize(df_long))
    /\ pc' = "perc"
    /\ UNCHANGED <<uploaded_file, widget, clicked, df, all_columns, checkbox_states,
                   submitted, feedback_cols, total_responses, df_perc,
                   criterion_short_map, sorted_criteria, page, chart, archive>>

\* lines 123-132
PercStep ==
    /\ pc = "perc"
    /\ df_perc' = Percentages(Merge(CountGroups(df_long), TotalGroups(df_long)))
    /\ pc' = "short"
    /\ UNCHANGED <<uploaded_file, widget, clicked, df, all_columns, checkbox_states,
                   submitted, feedback_cols, total_responses, df_long,
                   criterion_short_map, sorted_criteria, page, chart, archive>>

\* lines 136-142
ShortNamesStep ==
    /\ pc = "short"
    /\ criterion_short_map' = ShortMap(feedback_cols)
    /\ df_perc' = Relabel(df_perc, criterion_short_map')
    /\ sorted_criteria' = Sorted(DictValues(feedback_cols, criterion_short_map'))
    /\ pc' = "chart"
    /\ UNCHANGED <<uploaded_file, widget, clicked, df, all_columns, checkbox_states,
                   submitted, feedback_cols, total_responses, df_long, page, chart,
                   archive>>

\* lines 145-170: the chart is built and drawn, the script ends
DrawChart ==
    /\ pc = "chart"
    /\ chart' = <<ChartOf(df_perc, total_responses, sorted_criteria)>>
    /\ page' = page \o <<"header3", "success", "chart">>
    /\ archive' =
          LET seen == [k \in DOMAIN archive |->
                         IF k = RequestKey
                         THEN [archive[k] EXCEPT !.again = @ \/ archive[k].between]
                         ELSE [archive[k] EXCEPT !.between = TRUE]]
          IN IF RequestKey \in DOMAIN archive THEN seen
             ELSE seen @@ (RequestKey :>
                      [chart |-> chart'[1], between |-> FALSE, again |-> FALSE])
    /\ pc' = "idle"
    /\ UNCHANGED <<uploaded_file, widget, clicked, locals>>

-----------------------------------------------------------------------------
(* The user: each event on a widget outside a form reruns the script       *)

\* a file is put into (or replaces the one in) the uploader
UploadFile ==
    /\ pc = "idle"
    /\ \E f \in SessionFiles : uploaded_file' = f
    /\ clicked' = FALSE
    /\ pc' = "start"
    /\ UNCHANGED <<widget, locals, page, chart, archive>>

\* the file is removed from the uploader
RemoveFile ==
    /\ pc = "idle"
    /\ uploaded_file # NoFile
    /\ uploaded_file' = NoFile
    /\ clicked' = FALSE
    /\ pc' = "start"
    /\ UNCHANGED <<widget, locals, page, chart, archive>>

\* a checkbox of the form is flipped: inside st.form this reruns nothing
ToggleCheckbox ==
    /\ pc = "idle"
    /\ \E col \in DOMAIN widget : widget' = [widget EXCEPT ![col] = ~@]
    /\ UNCHANGED <<uploaded_file, clicked, pc, locals, page, chart, archive>>

\* 'Run Analysis on Selected Columns' is clicked
SubmitForm ==
    /\ pc = "idle"
    /\ DOMAIN widget # {}
    /\ clicked' = TRUE
    /\ pc' = "start"
    /\ UNCHANGED <<uploaded_file, widget, locals, page, chart, archive>>

-----------------------------------------------------------------------------
(* Specifications                                                          *)

InitLocals ==
    /\ df = EmptyFrame
    /\ all_columns = <<>>
    /\ checkbox_states = <<>>
    /\ submitted = FALSE
    /\ feedback_cols = <<>>
    /\ total_responses = 0
    /\ df_long = <<>>
    /\ df_perc = <<>>
    /\ criterion_short_map = <<>>
    /\ sorted_criteria = <<>>

\* a session: the page is opened with no file
Init ==
    /\ uploaded_file = NoFile
    /\ widget = <<>>
    /\ clicked = FALSE
    /\ pc = "start"
    /\ InitLocals
    /\ page = <<>>
    /\ chart = <<>>
    /\ archive = <<>>

Next ==
    \/ RunTopNoFile
    \/ RunTopWithFile
    \/ ReadOk
    \/ ReadFail
    \/ BuildForm
    \/ NotSubmitted
    \/ SelectColumns
    \/ SelectNone
    \/ MeltStep
    \/ MapStep
    \/ PercStep
    \/ ShortNamesStep
    \/ DrawChart
    \/ UploadFile
    \/ RemoveFile
    \/ ToggleCheckbox
    \/ SubmitForm

Spec == Init /\ [][Next]_vars

\* one run of the script, for every file of RunFiles: the first run after the
\* upload, or the run a click on the button starts, with any ticks in the form
InitRun ==
    /\ uploaded_file \in RunFiles \cup {NoFile}
    /\ clicked \in BOOLEAN
    /\ clicked => uploaded_file # NoFile /\ ~ReadRaises(uploaded_file)
    /\ widget \in IF clicked THEN [Range(uploaded_file.table.columns) -> BOOLEAN]
                  ELSE {<<>>}
    /\ pc = "start"
    /\ InitLocals
    /\ page = <<>>
    /\ chart = <<>>
    /\ archive = <<>>

NextRun ==
    \/ RunTopNoFile
    \/ RunTopWithFile
    \/ ReadOk
    \/ ReadFail
    \/ BuildForm
    \/ NotSubmitted
    \/ SelectColumns
    \/ SelectNone
    \/ MeltStep
    \/ MapStep
    \/ PercStep
    \/ ShortNamesStep
    \/ DrawChart

SpecRun == InitRun /\ [][NextRun]_vars

-----------------------------------------------------------------------------
(* Properties                                                              *)

\* the rows of the chart drawn by the run in progress (none before it draws)
ChartRows == IF chart = <<>> THEN <<>> ELSE chart[1].data

Recognized == {RespStronglyAgree, RespAgree, RespDisagree, RespStronglyDisagree}
Categories == {StronglyAgree, Agree, Disagree, StronglyDisagree}

\* the cells of the loaded table's column col that lie in S, counted on the table
CountCells(col, S) ==
    Cardinality({r \in 1..Len(df.data) : df.data[r][ColIndex(df, col)] \in S})

\* the response literal a category stands for
LiteralOf(cat) == CHOOSE lit \in Recognized : response_to_category[lit] = cat

RECURSIVE SumCount(_, _)
SumCount(rows, crit) ==
    IF rows = <<>> THEN 0
    ELSE (IF Head(rows).Criterion = crit THEN Head(rows).Count ELSE 0)
             + SumCount(Tail(rows), crit)

\* C1: in the chart's rows, the Counts of one question sum to exactly that
\* question's Total, and the Total is at most the row count of the loaded table
\* (the N of the title).
C1_CountsSumToTotal ==
    \A k \in 1..Len(ChartRows) :
        /\ SumCount(ChartRows, ChartRows[k].Criterion) = ChartRows[k].Total
        /\ ChartRows[k].Total <= chart[1].title_N
        /\ chart[1].title_N = Len(uploaded_file.table.data)

\* a question drawn with two categories whose Total is below the row count
C1_Witness ==
    \E k, j \in 1..Len(ChartRows) :
        /\ k # j
        /\ ChartRows[k].Criterion = ChartRows[j].Criterion
        /\ ChartRows[k].Total < chart[1].title_N

\* C2: every row of the chart has 0 < Count <= Total and Percentage =
\* Count/Total; its Diverging Percentage is +Percentage for Strongly Agree and
\* Agree (Positive) and -Percentage for Disagree and Strongly Disagree
\* (Negative), hence within [-1, 1].
C2_PercentageAndSign ==
    \A k \in 1..Len(ChartRows) :
        LET r == ChartRows[k] IN
        /\ 0 < r.Count /\ r.Count <= r.Total
        /\ r.Percentage.num = r.Count /\ r.Percentage.den = r.Total
        /\ r.Diverging_Percentage.den = r.Total
        /\ r.Response_Category \in {StronglyAgree, Agree} =>
              r.Sentiment = Positive /\ r.Diverging_Percentage.num = r.Count
        /\ r.Response_Category \in {Disagree, StronglyDisagree} =>
              r.Sentiment = Negative /\ r.Diverging_Percentage.num = 0 - r.Count
        /\ r.Sentiment \in {Positive, Negative}
        /\ 0 - r.Diverging_Percentage.den <= r.Diverging_Percentage.num
        /\ r.Diverging_Percentage.num <= r.Diverging_Percentage.den

\* a chart with a Positive row and a Negative row, one of them below 100 %
C2_Witness ==
    \E k, j \in 1..Len(ChartRows) :
        /\ ChartRows[k].Sentiment = Positive
        /\ ChartRows[j].Sentiment = Negative
        /\ ChartRows[j].Count < ChartRows[j].Total

\* a run that was submitted with a column ticked and has ended
AnalysisEnded == pc = "idle" /\ submitted /\ feedback_cols # <<>>

\* C5: a cell of a selected column that is not one of the four literals is
\* dropped without an error: the run draws its chart, each Count is the number
\* of cells holding that category's literal, each Total the number of cells
\* holding any of the four literals, and every Category is one of the four.
C5_UnrecognizedDropped ==
    /\ AnalysisEnded => chart # <<>>
    /\ \A k \in 1..Len(ChartRows) :
          /\ ChartRows[k].Response_Category \in Categories
          /\ \A c \in Range(feedback_cols) :
                criterion_short_map[c] = ChartRows[k].Criterion =>
                   /\ ChartRows[k].Count =
                         CountCells(c, {LiteralOf(ChartRows[k].Response_Category)})
                   /\ ChartRows[k].Total = CountCells(c, Recognized)

\* a drawn question whose column also holds a blank and an unrecognized text
C5_Witness ==
    \E k \in 1..Len(ChartRows) : \E c \in Range(feedback_cols) :
        /\ criterion_short_map[c] = ChartRows[k].Criterion
        /\ CountCells(c, {NaN}) > 0
        /\ CountCells(c, {StronglyAgree, NotApplicable}) > 0

\* the shortened name C7 states, written out: the decimal digits of i, '. ',
\* then the name, cut to 60 characters plus '...' when it is longer
Digits(i) == IF i < 10 THEN <<48 + i>> ELSE <<48 + (i \div 10), 48 + (i % 10)>>
StatedLabel(i, name) ==
    Digits(i) \o <<46, 32>> \o
        (IF Len(name) <= 60 THEN name
         ELSE [j \in 1..60 |-> name[j]] \o <<46, 46, 46>>)

\* C7: the i-th ticked column, in the order of the table's columns, gets the
\* label i, '. ', then its name when the name has at most 60 characters, else
\* the first 60 characters and '...'; these labels replace Criterion in the rows.
C7_ShortLabels ==
    chart # <<>> =>
        /\ \A i \in 1..Len(feedback_cols) :
              /\ criterion_short_map[feedback_cols[i]] = StatedLabel(i, feedback_cols[i])
              /\ feedback_cols[i] = Name70 /\ i = 1 =>
                    criterion_short_map[feedback_cols[i]] =
                        <<49, 46, 32>> \o Rep(88, 60) \o <<46, 46, 46>>
        /\ \A i, j \in 1..Len(feedback_cols) :
              i < j => ColIndex(df, feedback_cols[i]) < ColIndex(df, feedback_cols[j])
        /\ Range(feedback_cols) = {c \in Range(df.columns) : checkbox_states[c]}
        /\ \A k \in 1..Len(ChartRows) :
              \E i \in 1..Len(feedback_cols) :
                  ChartRows[k].Criterion = StatedLabel(i, feedback_cols[i])

\* the 70-character name ticked first, a 60-character name and a tenth column
C7_Witness ==
    /\ chart # <<>>
    /\ Len(feedback_cols) >= 10
    /\ feedback_cols[1] = Name70
    /\ Name60 \in Range(feedback_cols)
    /\ ChartRows # <<>>

\* C8: a ticked column without any recognized literal gives no row, and the
\* analysis still ends with its chart and divides by no zero Total, also when
\* that column is the only one ticked.
C8_EmptyQuestion ==
    /\ AnalysisEnded => chart # <<>> /\ Range(page) \cap {"error_read", "error_select"} = {}
    /\ \A k \in 1..Len(ChartRows) : ChartRows[k].Total > 0
    /\ chart # <<>> =>
          \A i \in 1..Len(feedback_cols) :
              CountCells(feedback_cols[i], Recognized) = 0 =>
                  \A k \in 1..Len(ChartRows) :
                      ChartRows[k].Criterion # StatedLabel(i, feedback_cols[i])

\* the only ticked column of a table with rows holds no recognized literal
C8_Witness ==
    /\ AnalysisEnded
    /\ chart # <<>>
    /\ Len(feedback_cols) = 1
    /\ Len(df.data) > 0
    /\ CountCells(feedback_cols[1], Recognized) = 0
    /\ ChartRows = <<>>

\* a <= b in code-point order: equal, a proper prefix, or smaller at the first
\* position where they differ
LexLeq(a, b) ==
    \/ a = b
    \/ \E n \in 0..Len(a) :
          /\ n <= Len(b)
          /\ \A i \in 1..n : a[i] = b[i]
          /\ \/ n = Len(a) /\ n < Len(b)
             \/ n < Len(a) /\ n < Len(b) /\ a[n + 1] < b[n + 1]

StartsWith(s, head) == Len(s) >= Len(head) /\ \A i \in 1..Len(head) : s[i] = head[i]

\* C9: the labels handed to the chart as its sort order ascend in code-point
\* order of the label text, not by index: with ten or more ticked columns the
\* label '10. ...' stands before the label '2. ...'.
C9_LexicographicOrder ==
    chart # <<>> =>
        LET s == chart[1].sort IN
        /\ \A i, j \in 1..Len(s) : i < j => LexLeq(s[i], s[j])
        /\ Len(feedback_cols) >= 10 =>
              \E i, j \in 1..Len(s) :
                  /\ i < j
                  /\ StartsWith(s[i], <<49, 48, 46, 32>>)
                  /\ StartsWith(s[j], <<50, 46, 32>>)

\* a chart of ten or more ticked columns
C9_Witness == chart # <<>> /\ Len(feedback_cols) >= 10 /\ Len(chart[1].sort) >= 10

\* C10: distinct ticked columns get distinct labels, also when their names
\* agree on the first 60 characters; no row of the chart stands for two
\* columns; and the label sequence holds exactly one label per ticked column,
\* the columns without rows included.
C10_LabelsDistinct ==
    chart # <<>> =>
        /\ \A i, j \in 1..Len(feedback_cols) :
              i # j => criterion_short_map[feedback_cols[i]]
                          # criterion_short_map[feedback_cols[j]]
        /\ Len(chart[1].sort) = Len(feedback_cols)
        /\ Range(chart[1].sort) = {criterion_short_map[c] : c \in Range(feedback_cols)}
        /\ \A k \in 1..Len(ChartRows) :
              Cardinality({c \in Range(feedback_cols) :
                              criterion_short_map[c] = ChartRows[k].Criterion}) = 1
        /\ \A k, j \in 1..Len(ChartRows) :
              (/\ ChartRows[k].Criterion = ChartRows[j].Criterion
               /\ ChartRows[k].Response_Category = ChartRows[j].Response_Category)
                  => k = j
        /\ Cardinality({ChartRows[k].Criterion : k \in 1..Len(ChartRows)}) =
              Cardinality({c \in Range(feedback_cols) : CountCells(c, Recognized) > 0})

\* two ticked columns whose names agree on 60 characters, both with rows, and
\* a chart with a ticked column that has none
C10_Witness ==
    /\ chart # <<>>
    /\ \E a, b \in Range(feedback_cols) :
          /\ a # b
          /\ Prefix(a, 60) = Prefix(b, 60)
          /\ CountCells(a, Recognized) > 0
          /\ CountCells(b, Recognized) > 0
    /\ \E c \in Range(feedback_cols) : CountCells(c, Recognized) = 0

AnalysisPcs == {"melt", "map", "perc", "short", "chart"}

\* C3: a submission with no column ticked ends with the selection error
\* whatever the table holds: that run melts nothing, aggregates nothing and
\* draws no chart, and afterwards the form can be changed and submitted again.
C3_EmptySelectionFails ==
    /\ pc \in AnalysisPcs => feedback_cols # <<>>
    /\ (/\ pc = "idle"
        /\ submitted
        /\ \A c \in DOMAIN checkbox_states : ~checkbox_states[c])
           => "error_select" \in Range(page)
    /\ "error_select" \in Range(page) =>
          /\ pc \in {"idle", "start"}
          /\ df_long = <<>> /\ df_perc = <<>> /\ sorted_criteria = <<>>
          /\ chart = <<>>
          /\ Range(page) \cap {"spinner", "chart", "success"} = {}
          /\ pc = "idle" => ENABLED ToggleCheckbox /\ ENABLED SubmitForm

\* the selection error is on the page for a table that holds recognized
\* responses, in a session that has drawn a chart before
C3_Witness ==
    /\ pc = "idle"
    /\ "error_select" \in Range(page)
    /\ \E c \in Range(df.columns) : CountCells(c, Recognized) > 0
    /\ archive # <<>>

\* C4: when reading the file fails the run shows the load error and stops:
\* no form and no chart in that run; the analysis only runs, and a chart is
\* only on the page, in a run whose read succeeded.
C4_LoadErrorHalts ==
    /\ "error_read" \in Range(page) =>
          /\ pc \in {"idle", "start"}
          /\ Range(page) \cap {"form", "error_select", "spinner", "chart"} = {}
          /\ chart = <<>>
          /\ all_columns = <<>> /\ df_long = <<>> /\ df_perc = <<>>
    /\ (pc = "idle" /\ uploaded_file # NoFile /\ ReadRaises(uploaded_file))
           => "error_read" \in Range(page)
    /\ (pc \in AnalysisPcs \cup {"form", "submitted"} \/ (pc = "idle" /\ chart # <<>>))
           => /\ uploaded_file # NoFile
              /\ ~ReadRaises(uploaded_file)
              /\ df = uploaded_file.table

\* the load error is on the page in a session that has drawn a chart before
C4_Witness ==
    /\ pc = "idle"
    /\ "error_read" \in Range(page)
    /\ archive # <<>>

\* C6: the chart (rows, label order and N) is a function of the loaded table
\* and the ticked columns: whenever a chart is on the page it equals the first
\* chart this session drew for the same table and ticks, whatever was
\* submitted in between.
C6_SameRequestSameChart ==
    chart # <<>> =>
        /\ RequestKey \in DOMAIN archive
        /\ archive[RequestKey].chart = chart[1]

\* a chart drawn again for a table and ticks after a different request was drawn
C6_Witness ==
    /\ chart # <<>>
    /\ RequestKey \in DOMAIN archive
    /\ archive[RequestKey].again
    /\ ChartRows # <<>>

====
